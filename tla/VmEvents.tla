------------------------------ MODULE VmEvents ------------------------------
(***************************************************************************)
(* The event model of core/lib/vm_interface (execution_result.rs): the     *)
(* VmEvent record, the four fixed event signatures, and the pure           *)
(* extraction functions that scan an event log for the events of known     *)
(* system contracts.                                                       *)
(*                                                                         *)
(* Data is abstracted to what the extraction tells apart:                  *)
(*  - an address, a 32-byte topic and an event payload are model values;   *)
(*  - the `location` field is never read by this code and is left out;     *)
(*  - ethabi::decode([Bytes], value) is the constant function AbiDecode,   *)
(*    which gives the length of the decoded byte string, or Malformed;     *)
(*  - BytecodeHash::try_from(h).len_in_bytes() is the constant function   *)
(*    BytecodeLenInBytes, which gives a length, or Malformed.              *)
(* A message is represented by its length: that is all the metrics read.   *)
(***************************************************************************)
EXTENDS Naturals, Sequences, FiniteSets

CONSTANTS
  Addresses,                     \* the addresses events are emitted from
  L1_MESSENGER_ADDRESS,
  KNOWN_CODES_STORAGE_ADDRESS,
  Topics,                        \* the H256 values a topic may hold
  DEPLOY_EVENT_SIGNATURE,
  PUBLISHED_BYTECODE_SIGNATURE,
  L1_MESSAGE_EVENT_SIGNATURE,
  ZERO_HASH,                     \* H256::zero()
  Payloads,                      \* the byte strings an event value may hold
  Malformed,                     \* the outcome of a failed decode
  AbiDecode,                     \* ethabi::decode(&[Bytes], value), as a length
  BytecodeLenInBytes,            \* BytecodeHash::try_from(h).len_in_bytes()
  PUBLISH_BYTECODE_OVERHEAD

ASSUME AddressAssumption ==
  {L1_MESSENGER_ADDRESS, KNOWN_CODES_STORAGE_ADDRESS} \subseteq Addresses

ASSUME TopicAssumption ==
  /\ {DEPLOY_EVENT_SIGNATURE, PUBLISHED_BYTECODE_SIGNATURE,
      L1_MESSAGE_EVENT_SIGNATURE, ZERO_HASH} \subseteq Topics
  \* The signatures are distinct hashes, none of them zero.
  /\ Cardinality({DEPLOY_EVENT_SIGNATURE, PUBLISHED_BYTECODE_SIGNATURE,
                  L1_MESSAGE_EVENT_SIGNATURE, ZERO_HASH}) = 4

ASSUME DecodeAssumption ==
  /\ Malformed \notin Nat
  /\ AbiDecode \in [Payloads -> Nat \cup {Malformed}]
  /\ BytecodeLenInBytes \in [Topics -> Nat \cup {Malformed}]
  /\ PUBLISH_BYTECODE_OVERHEAD \in Nat

(***************************************************************************)
(* VmEvent, without its location.                                          *)
(***************************************************************************)
VmEvent == [address : Addresses, indexed_topics : Seq(Topics), value : Payloads]

(***************************************************************************)
(* The filters of the extraction functions.  Each is the closure passed to *)
(* `.filter`; the length test comes before the indexing, as in the code,   *)
(* so no filter reads a topic that is not there.                           *)
(***************************************************************************)
IsL1MessageEvent(e) ==
  /\ e.address = L1_MESSENGER_ADDRESS
  /\ Len(e.indexed_topics) = 3
  /\ e.indexed_topics[1] = L1_MESSAGE_EVENT_SIGNATURE

IsPublishedBytecodeEvent(e) ==
  /\ e.address = KNOWN_CODES_STORAGE_ADDRESS
  /\ Len(e.indexed_topics) = 3
  /\ e.indexed_topics[1] = PUBLISHED_BYTECODE_SIGNATURE
  /\ e.indexed_topics[3] # ZERO_HASH

IsMarkedAsKnownEvent(e) ==
  /\ e.address = KNOWN_CODES_STORAGE_ADDRESS
  /\ Len(e.indexed_topics) = 3
  /\ e.indexed_topics[1] = PUBLISHED_BYTECODE_SIGNATURE

(* The events of the first i of a log that the filter keeps, in order, for
   every i: what `events.iter().filter(..)` has yielded once it has consumed
   i events; Keep is the set of events the closure accepts.  The log's
   filtered sequence is the last element.  (Sequences' SelectSeq is the same,
   but the provers know it by name only.) *)
FilterPrefix(s, Keep) ==
  LET F[i \in 0..Len(s)] ==
        IF i = 0 THEN << >>
        ELSE IF s[i] \in Keep THEN Append(F[i - 1], s[i]) ELSE F[i - 1]
  IN  F

FilterSeq(s, Keep) == FilterPrefix(s, Keep)[Len(s)]

(***************************************************************************)
(* The extraction functions over a whole event log.  The two `expect`s of  *)
(* the code are the predicates *Fails: when one holds, the code panics     *)
(* instead of returning.                                                   *)
(***************************************************************************)
ExtractLongL2ToL1Messages(events) ==
  LET sel == FilterSeq(events, {e \in VmEvent : IsL1MessageEvent(e)})
  IN  [k \in 1..Len(sel) |-> AbiDecode[sel[k].value]]

LongMessageDecodeFails(events) ==
  \E k \in 1..Len(events) :
     IsL1MessageEvent(events[k]) /\ AbiDecode[events[k].value] = Malformed

ExtractPublishedBytecodes(events) ==
  LET sel == FilterSeq(events, {e \in VmEvent : IsPublishedBytecodeEvent(e)})
  IN  [k \in 1..Len(sel) |-> sel[k].indexed_topics[2]]

PublishedBytecodeParseFails(events) ==
  \E k \in 1..Len(events) :
     /\ IsPublishedBytecodeEvent(events[k])
     /\ BytecodeLenInBytes[events[k].indexed_topics[2]] = Malformed

ExtractBytecodesMarkedAsKnown(events) ==
  LET sel == FilterSeq(events, {e \in VmEvent : IsMarkedAsKnownEvent(e)})
  IN  [k \in 1..Len(sel) |-> sel[k].indexed_topics[2]]

ContainsContractDeployment(events) ==
  \E k \in 1..Len(events) :
     /\ Len(events[k].indexed_topics) >= 1
     /\ events[k].indexed_topics[1] = DEPLOY_EVENT_SIGNATURE

=============================================================================
