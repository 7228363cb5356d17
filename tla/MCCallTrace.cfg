CONSTANTS
  Caller = Caller
  Callee = Callee
  NoReason = NoReason
  Reason1 = Reason1
  Nodes <- MCNodes
  WireNodes <- MCWireNodes
  WireBytes = {1, 3, 256}
  MaxDepth = 2
  MaxWidth = 2

SPECIFICATION Spec

INVARIANT SerdeRoundTrip
INVARIANT DecodeRejectsExactlyBadOpcodes
INVARIANT EqIgnoresExactlyGas

CHECK_DEADLOCK FALSE
