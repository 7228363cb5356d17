------------------------- MODULE MCExecutionMetrics -------------------------
(***************************************************************************)
(* A small instance of ExecutionMetrics for TLC.  Three addresses (the two *)
(* system contracts and one other), the four signatures, the zero hash,    *)
(* two parseable bytecode hashes (one and two words) and one that does not *)
(* parse; four payloads: messages of 1, 32 and 33 bytes, which sit on both *)
(* sides of a word boundary, and one that does not decode.  The event      *)
(* universe puts every filter's conjunct on both sides: the right and a    *)
(* wrong address, 3 topics and 1 or 4, a zero and a non-zero third topic.  *)
(***************************************************************************)
EXTENDS ExecutionMetrics

CONSTANTS OtherAddress, HashA, HashB, HashBad, Msg1, Msg32, Msg33, Garbage

MCAddresses == {L1_MESSENGER_ADDRESS, KNOWN_CODES_STORAGE_ADDRESS, OtherAddress}

MCTopics == {DEPLOY_EVENT_SIGNATURE, PUBLISHED_BYTECODE_SIGNATURE,
             L1_MESSAGE_EVENT_SIGNATURE, ZERO_HASH, HashA, HashB, HashBad}

MCPayloads == {Msg1, Msg32, Msg33, Garbage}

MCAbiDecode ==
  [p \in MCPayloads |->
     CASE p = Msg1  -> 1
       [] p = Msg32 -> 32
       [] p = Msg33 -> 33
       [] OTHER     -> Malformed]

MCBytecodeLenInBytes ==
  [t \in MCTopics |->
     CASE t = HashA -> 32
       [] t = HashB -> 64
       [] OTHER     -> Malformed]

MCEventUniverse ==
  LET L1 == L1_MESSAGE_EVENT_SIGNATURE
      PB == PUBLISHED_BYTECODE_SIGNATURE
  IN  [address : {L1_MESSENGER_ADDRESS, OtherAddress},
       indexed_topics : {<<L1, HashA, ZERO_HASH>>, <<L1>>,
                         <<L1, HashA, ZERO_HASH, ZERO_HASH>>},
       value : MCPayloads]
      \cup
      [address : {KNOWN_CODES_STORAGE_ADDRESS, L1_MESSENGER_ADDRESS},
       indexed_topics : {<<PB, HashA, HashB>>, <<PB, HashB, ZERO_HASH>>,
                         <<PB, HashBad, HashA>>, <<PB, HashBad, ZERO_HASH>>,
                         <<PB, HashA>>},
       value : {Garbage}]
      \cup
      [address : {OtherAddress},
       indexed_topics : {<<DEPLOY_EVENT_SIGNATURE>>, <<>>},
       value : {Garbage}]

=============================================================================
