----------------------------- MODULE MetricsSpec -----------------------------
(***************************************************************************)
(* What get_execution_metrics promises, in one step: given the event log   *)
(* and the L2->L1 log vectors, it either panics, exactly when a trusted    *)
(* payload is malformed, or returns the metrics computed over the whole    *)
(* log.  The events each metric reads are stated by the admission rule    *)
(* every extraction shares (address, three topics, topic 0 the             *)
(* signature), not by the code's three closures; the byte metrics are      *)
(* stated by what they count, the size of an ABI-encoded `bytes` value     *)
(* (offset word, length word, data padded to whole words), not by the      *)
(* code's arithmetic.                                                      *)
(***************************************************************************)
EXTENDS VmEvents

CONSTANTS EventLogs, LogRecords

VARIABLES events, logs, outcome, result

NoMetrics == [none |-> TRUE]

(* The size of the ABI encoding of a `bytes` value of length len: an offset
   word, a length word, and the data padded with zeroes to whole words. *)
AbiEncodedBytesSize(len) ==
  LET padded == CHOOSE p \in len..(len + 31) : p % 32 = 0
  IN  32 + 32 + padded

(* The sums of the first i elements of s, for every i; the sum of s, what
   `.iter().sum()` returns, is the last. *)
SumPrefix(s) ==
  LET S[i \in 0..Len(s)] == IF i = 0 THEN 0 ELSE S[i - 1] + s[i]
  IN  S

SumOf(s) == SumPrefix(s)[Len(s)]

(* An event is of the kind of a system contract at addr with signature sig
   when it comes from addr, has three topics and topic 0 is sig. *)
Admits(e, addr, sig) ==
  /\ e.address = addr
  /\ Len(e.indexed_topics) = 3
  /\ e.indexed_topics[1] = sig

(* L1MessageSent events; bytecode markings; the markings that ask for
   publication (third topic non-zero).  Every marking is counted, those
   with a zero third topic included. *)
L1Messages == {e \in VmEvent : Admits(e, L1_MESSENGER_ADDRESS, L1_MESSAGE_EVENT_SIGNATURE)}

KnownMarkings ==
  {e \in VmEvent : Admits(e, KNOWN_CODES_STORAGE_ADDRESS, PUBLISHED_BYTECODE_SIGNATURE)}

Publications == {e \in KnownMarkings : e.indexed_topics[3] # ZERO_HASH}

ResultOf(evs, lg) ==
  LET msgs == FilterSeq(evs, L1Messages)
      pubs == FilterSeq(evs, Publications)
      long == [k \in 1..Len(msgs) |-> AbiDecode[msgs[k].value]]
      pub  == [k \in 1..Len(pubs) |-> pubs[k].indexed_topics[2]]
  IN  [published_bytecode_bytes |->
         SumOf([k \in DOMAIN pub |->
                  BytecodeLenInBytes[pub[k]] + PUBLISH_BYTECODE_OVERHEAD]),
       l2_l1_long_messages |->
         SumOf([k \in DOMAIN long |-> AbiEncodedBytesSize(long[k])]),
       l2_to_l1_logs |-> lg.user + lg.system,
       user_l2_to_l1_logs |-> lg.user,
       vm_events |-> Len(evs),
       contract_deployment_count |-> Len(FilterSeq(evs, KnownMarkings))]

(* Some L1 message does not decode, or some publication's hash does not
   parse. *)
Fails(evs) ==
  \E k \in 1..Len(evs) :
     \/ evs[k] \in L1Messages /\ AbiDecode[evs[k].value] = Malformed
     \/ evs[k] \in Publications /\ BytecodeLenInBytes[evs[k].indexed_topics[2]] = Malformed

Init ==
  /\ events \in EventLogs
  /\ logs \in LogRecords
  /\ outcome = "running"
  /\ result = NoMetrics

Return ==
  /\ outcome = "running"
  /\ ~Fails(events)
  /\ outcome' = "done"
  /\ result' = ResultOf(events, logs)
  /\ UNCHANGED <<events, logs>>

Abort ==
  /\ outcome = "running"
  /\ Fails(events)
  /\ outcome' = "panic"
  /\ UNCHANGED <<events, logs, result>>

Next == Return \/ Abort

Spec == Init /\ [][Next]_<<events, logs, outcome, result>>

=============================================================================
