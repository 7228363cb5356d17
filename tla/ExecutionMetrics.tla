-------------------------- MODULE ExecutionMetrics --------------------------
(***************************************************************************)
(* VmExecutionResultAndLogs::get_execution_metrics (execution_result.rs).  *)
(*                                                                         *)
(* The function makes three passes over `self.logs.events`, in this order: *)
(*  1. extract_long_l2_to_l1_messages, decoding every L1MessageSent event  *)
(*     (`expect`: a decode failure panics), summed as ABI-encoded bytes;   *)
(*  2. extract_published_bytecodes, each hash parsed by                    *)
(*     BytecodeHash::try_from (`expect`: a parse failure panics), summed   *)
(*     as its length plus PUBLISH_BYTECODE_OVERHEAD;                       *)
(*  3. extract_bytecodes_marked_as_known(..).count().                      *)
(* and then builds the VmExecutionMetrics record.  Each pass is modelled   *)
(* one event per step, `idx` being the number of events the iterator has   *)
(* consumed; a panic ends the computation with no result.  Collecting a    *)
(* pass before summing it, as the code does, is the same as summing as it  *)
(* goes: a panic anywhere in the pass discards the partial sum.            *)
(***************************************************************************)
EXTENDS VmEvents

CONSTANTS
  EventUniverse,   \* the events the VM may emit in a checked instance
  MaxEvents,       \* bound on the length of the event log
  LogCounts        \* the lengths the two L2->L1 log vectors may have

ASSUME ScanAssumption ==
  /\ EventUniverse \subseteq VmEvent
  /\ MaxEvents \in Nat
  /\ LogCounts \subseteq Nat

VARIABLES
  events,                     \* self.logs.events
  logs,                       \* lengths of user_l2_to_l1_logs and system_l2_to_l1_logs
  phase,                      \* the pass being run, or "done" / "panic"
  idx,                        \* events consumed by the current pass
  l2_l1_long_messages,        \* the running sum of pass 1
  published_bytecode_bytes,   \* the running sum of pass 2
  contract_deployment_count,  \* the running count of pass 3
  metrics                     \* the returned VmExecutionMetrics, or NoMetrics

vars == <<events, logs, phase, idx, l2_l1_long_messages,
          published_bytecode_bytes, contract_deployment_count, metrics>>

Phases == {"long", "published", "known", "done", "panic"}

NoMetrics == [none |-> TRUE]

(* The event logs of a checked instance: at most MaxEvents events. *)
EventLogs == UNION {[1..n -> EventUniverse] : n \in 0..MaxEvents}

(* The VmExecutionMetrics fields this model computes; the statistics
   fields (gas_used, cycles_used, ...) are copied unchanged and left out. *)
MetricsRecord ==
  [published_bytecode_bytes : Nat, l2_l1_long_messages : Nat,
   l2_to_l1_logs : Nat, user_l2_to_l1_logs : Nat, vm_events : Nat,
   contract_deployment_count : Nat]

Init ==
  /\ events \in EventLogs
  /\ logs \in [user : LogCounts, system : LogCounts]
  /\ phase = "long"
  /\ idx = 0
  /\ l2_l1_long_messages = 0
  /\ published_bytecode_bytes = 0
  /\ contract_deployment_count = 0
  /\ metrics = NoMetrics

-----------------------------------------------------------------------------
(***************************************************************************)
(* Plausible bugs of the code, each the replacement of one definition      *)
(* below (see PROJECT.json "mutants").                                     *)
(***************************************************************************)
(* Round up to the next multiple of 32 by adding 32 instead of 31. *)
LongMessageBytesRoundedPastMultiple(len) == ((len + 32) \div 32) * 32 + 64

-----------------------------------------------------------------------------
(* The bytes one long message costs: the length rounded up to a multiple
   of 32, plus the encoded offset and length words. *)
LongMessageBytes(len) == ((len + 31) \div 32) * 32 + 64

(* The bytes one published bytecode costs. *)
PublishedBytecodeBytes(len) == len + PUBLISH_BYTECODE_OVERHEAD

(* The iterator of a pass moves past one event. *)
Advance == idx' = idx + 1

(* A trusted payload failed to decode: the `expect` panics. *)
Panic ==
  /\ phase' = "panic"
  /\ UNCHANGED <<idx, l2_l1_long_messages, published_bytecode_bytes,
                 contract_deployment_count, metrics>>

(* The length of the message an L1MessageSent event carries, or Malformed. *)
LongMessageLen(e) == AbiDecode[e.value]

(* Pass 1, one event: skip it, decode and add it, or panic. *)
LongMessageStep ==
  /\ phase = "long"
  /\ idx < Len(events)
  /\ LET e == events[idx + 1]
     IN  \/ /\ ~IsL1MessageEvent(e)
            /\ Advance
            /\ UNCHANGED <<phase, l2_l1_long_messages>>
         \/ /\ IsL1MessageEvent(e)
            /\ LongMessageLen(e) # Malformed
            /\ l2_l1_long_messages' =
                 l2_l1_long_messages + LongMessageBytes(LongMessageLen(e))
            /\ Advance
            /\ UNCHANGED phase
         \/ /\ IsL1MessageEvent(e)
            /\ LongMessageLen(e) = Malformed
            /\ Panic
  /\ UNCHANGED <<events, logs, published_bytecode_bytes,
                 contract_deployment_count, metrics>>

(* Pass 1 is exhausted; pass 2 starts a fresh iterator. *)
EndLongMessages ==
  /\ phase = "long"
  /\ idx = Len(events)
  /\ phase' = "published"
  /\ idx' = 0
  /\ UNCHANGED <<events, logs, l2_l1_long_messages, published_bytecode_bytes,
                 contract_deployment_count, metrics>>

(* Pass 2, one event: skip it, parse its hash and add it, or panic. *)
PublishedBytecodeStep ==
  /\ phase = "published"
  /\ idx < Len(events)
  /\ LET e == events[idx + 1]
         len == BytecodeLenInBytes[e.indexed_topics[2]]
     IN  \/ /\ ~IsPublishedBytecodeEvent(e)
            /\ Advance
            /\ UNCHANGED <<phase, published_bytecode_bytes>>
         \/ /\ IsPublishedBytecodeEvent(e)
            /\ len # Malformed
            /\ published_bytecode_bytes' =
                 published_bytecode_bytes + PublishedBytecodeBytes(len)
            /\ Advance
            /\ UNCHANGED phase
         \/ /\ IsPublishedBytecodeEvent(e)
            /\ len = Malformed
            /\ Panic
  /\ UNCHANGED <<events, logs, l2_l1_long_messages,
                 contract_deployment_count, metrics>>

(* Pass 2 is exhausted; pass 3 starts a fresh iterator. *)
EndPublishedBytecodes ==
  /\ phase = "published"
  /\ idx = Len(events)
  /\ phase' = "known"
  /\ idx' = 0
  /\ UNCHANGED <<events, logs, l2_l1_long_messages, published_bytecode_bytes,
                 contract_deployment_count, metrics>>

(* Pass 3, one event: count it if it is a MarkedAsKnown event. *)
KnownBytecodeStep ==
  /\ phase = "known"
  /\ idx < Len(events)
  /\ contract_deployment_count' =
       IF IsMarkedAsKnownEvent(events[idx + 1])
       THEN contract_deployment_count + 1 ELSE contract_deployment_count
  /\ Advance
  /\ UNCHANGED <<events, logs, phase, l2_l1_long_messages,
                 published_bytecode_bytes, metrics>>

(* VmExecutionLogs::total_l2_to_l1_logs_count, over the lengths of the two
   log vectors. *)
TotalL2ToL1LogsCount(l) == l.user + l.system

(* Pass 3 is exhausted: the VmExecutionMetrics record is returned. *)
BuildMetrics ==
  /\ phase = "known"
  /\ idx = Len(events)
  /\ phase' = "done"
  /\ metrics' =
       [published_bytecode_bytes |-> published_bytecode_bytes,
        l2_l1_long_messages |-> l2_l1_long_messages,
        l2_to_l1_logs |-> TotalL2ToL1LogsCount(logs),
        user_l2_to_l1_logs |-> logs.user,
        vm_events |-> Len(events),
        contract_deployment_count |-> contract_deployment_count]
  /\ UNCHANGED <<events, logs, idx, l2_l1_long_messages,
                 published_bytecode_bytes, contract_deployment_count>>

Next ==
  \/ LongMessageStep
  \/ EndLongMessages
  \/ PublishedBytecodeStep
  \/ EndPublishedBytecodes
  \/ KnownBytecodeStep
  \/ BuildMetrics

Spec == Init /\ [][Next]_vars

-----------------------------------------------------------------------------
(* Every variable holds a value of its type. *)
TypeOK ==
  /\ events \in Seq(VmEvent)
  /\ logs \in [user : Nat, system : Nat]
  /\ phase \in Phases
  /\ idx \in 0..Len(events)
  /\ l2_l1_long_messages \in Nat
  /\ published_bytecode_bytes \in Nat
  /\ contract_deployment_count \in Nat
  /\ metrics \in MetricsRecord \cup {NoMetrics}

(* The one-step specification MetricsSpec, under the mapping that reads the
   outcome off the phase and the result off the returned record. *)
Abstract == INSTANCE MetricsSpec
              WITH EventLogs <- EventLogs,
                   LogRecords <- [user : LogCounts, system : LogCounts],
                   outcome <- IF phase \in {"done", "panic"} THEN phase ELSE "running",
                   result <- metrics

(* get_execution_metrics implements its one-step specification: it returns
   exactly the metrics the extraction functions define, or panics exactly
   when a trusted payload is malformed. *)
MetricsRefinesSpec == Abstract!Spec

=============================================================================
