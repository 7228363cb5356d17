CONSTANTS
  L1_MESSENGER_ADDRESS = L1_MESSENGER_ADDRESS
  KNOWN_CODES_STORAGE_ADDRESS = KNOWN_CODES_STORAGE_ADDRESS
  OtherAddress = OtherAddress
  DEPLOY_EVENT_SIGNATURE = DEPLOY_EVENT_SIGNATURE
  PUBLISHED_BYTECODE_SIGNATURE = PUBLISHED_BYTECODE_SIGNATURE
  L1_MESSAGE_EVENT_SIGNATURE = L1_MESSAGE_EVENT_SIGNATURE
  ZERO_HASH = ZERO_HASH
  HashA = HashA
  HashB = HashB
  HashBad = HashBad
  Msg1 = Msg1
  Msg32 = Msg32
  Msg33 = Msg33
  Garbage = Garbage
  Malformed = Malformed
  Addresses <- MCAddresses
  Topics <- MCTopics
  Payloads <- MCPayloads
  AbiDecode <- MCAbiDecode
  BytecodeLenInBytes <- MCBytecodeLenInBytes
  EventUniverse <- MCEventUniverse
  PUBLISH_BYTECODE_OVERHEAD = 100
  MaxEvents = 2
  LogCounts = {0, 1}

SPECIFICATION Spec

PROPERTY MetricsRefinesSpec

CHECK_DEADLOCK FALSE
