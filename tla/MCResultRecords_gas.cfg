CONSTANTS
  GasWidth = 2
  OverflowChecks = FALSE
  GasLimits = {2, 3}
  O1 = O1
  R1 = R1
  H1 = H1
  C1 = C1
  C2 = C2
  Outputs = {O1}
  RevertReasons = {R1}
  HaltReasons = {H1}
  LeafCalls = {C1, C2}
  MaxLeafCalls = 2
  BOOTLOADER_ADDRESS = BOOTLOADER_ADDRESS
  ZERO_ADDRESS = ZERO_ADDRESS
  NoReason = NoReason

SPECIFICATION Spec


INVARIANT TraceGasAccountsForRefund

CHECK_DEADLOCK FALSE
