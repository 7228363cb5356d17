------------------------- MODULE ResultRecordsProofs -------------------------
(***************************************************************************)
(* Proofs about ResultRecords, for every value of the constants that       *)
(* satisfies RecordsAssumption.  The invariant of the `records` run is     *)
(* not inductive as it stands: it speaks of txResult and trace, but what   *)
(* makes it true is how those were computed from batchResult.              *)
(* RecordsInv records that history: each record is the projection of the  *)
(* one before it, and trace is what call_trace() returns for txResult.     *)
(***************************************************************************)
EXTENDS ResultRecords, TLAPS

USE RecordsAssumption

(* A wrapped u64 difference is a u64. *)
LEMMA U64SubType ==
  ASSUME NEW a \in Nat, NEW b \in Nat
  PROVE  U64Sub(a, b) \in U64
BY DEF U64Sub, U64

(* Each record was built from the one before it, as the code builds it. *)
RecordsInv ==
  /\ TypeOK
  /\ batchResult # None =>
       /\ vmResult # None
       /\ batchResult.tx_result = vmResult
       /\ batchResult.call_traces = vmResult.call_traces
  /\ txResult # None =>
       /\ batchResult # None
       /\ txResult.execution_status =
            TxExecutionStatusFromHasFailed(IsFailed(batchResult.tx_result.result))
       /\ txResult.refunded_gas = batchResult.tx_result.refunds.gas_refunded
       /\ txResult.call_traces = batchResult.call_traces
       /\ txResult.revert_reason = RevertReasonOf(batchResult.tx_result.result)
  /\ trace # NotCalled =>
       /\ txResult # None
       /\ trace = CallTraceOf(txResult, gasLimit)

-----------------------------------------------------------------------------
LEMMA InitTypeOK == Init => TypeOK
BY DEF Init, TypeOK

LEMMA NextTypeOK == TypeOK /\ [Next]_vars => TypeOK'
<1> SUFFICES ASSUME TypeOK, [Next]_vars PROVE TypeOK'
  OBVIOUS
<1>1. CASE Execute
  BY <1>1 DEF Execute, TypeOK, VmResults
<1>6. CASE Mock
  <2>1. [gas_refunded |-> 0, operator_suggested_refund |-> 0] \in RefundRecords
    BY DEF RefundRecords, U64
  <2>2. <<>> \in LeafTraces
    <3>1. <<>> \in [1..0 -> LeafCalls]
      OBVIOUS
    <3> QED
      BY <3>1 DEF LeafTraces
  <2>3. vmResult' \in VmResults
    BY <1>6, <2>1, <2>2 DEF Mock, VmResults
  <2> QED
    BY <1>6, <2>3 DEF Mock, TypeOK
<1>2. CASE MakeBatchResult
  <2>1. vmResult \in VmResults
    BY <1>2 DEF MakeBatchResult, TypeOK
  <2>2. vmResult.call_traces \in LeafTraces
    BY <2>1 DEF VmResults
  <2>3. batchResult' \in BatchResults
    BY <1>2, <2>1, <2>2 DEF MakeBatchResult, BatchResults
  <2> QED
    BY <1>2, <2>3 DEF MakeBatchResult, TypeOK
<1>3. CASE MakeTxResult
  <2> DEFINE r == batchResult.tx_result.result
  <2>1. batchResult \in BatchResults
    BY <1>3 DEF MakeTxResult, TypeOK
  <2>2. r \in ExecutionResult
    BY <2>1 DEF BatchResults, VmResults
  <2>3. RevertReasonOf(r) \in RevertReasons \cup {NoReason}
    BY <2>2 DEF RevertReasonOf, ExecutionResult
  <2>4. TxExecutionStatusFromHasFailed(IsFailed(r)) \in {"Success", "Failure"}
    BY DEF TxExecutionStatusFromHasFailed
  <2>5. batchResult.tx_result.refunds.gas_refunded \in U64
         /\ batchResult.call_traces \in LeafTraces
    BY <2>1 DEF BatchResults, VmResults, RefundRecords
  <2>6. txResult' \in TxResults
    BY <1>3, <2>3, <2>4, <2>5 DEF MakeTxResult, TxResults
  <2> QED
    BY <1>3, <2>6 DEF MakeTxResult, TypeOK
<1>4. CASE CallTrace
  <2>1. txResult \in TxResults
    BY <1>4 DEF CallTrace, TypeOK
  <2>2. gasLimit \in Nat
    BY DEF TypeOK
  <2>3. U64Sub(gasLimit, txResult.refunded_gas) \in U64
    <3>1. txResult.refunded_gas \in Nat
      BY <2>1 DEF TxResults, U64
    <3> QED
      BY <2>2, <3>1, U64SubType
  <2>4. ~AsU64Panics(gasLimit) => gasLimit \in U64
    BY <2>2 DEF AsU64Panics, U64
  <2>5. CallTraceOf(txResult, gasLimit) \in TraceRoots \cup {None, Panicked}
    BY <2>1, <2>3, <2>4 DEF CallTraceOf, NewHighLevel, TraceRoots, TxResults
  <2> QED
    BY <1>4, <2>5 DEF CallTrace, TypeOK
<1>5. CASE UNCHANGED vars
  BY <1>5 DEF vars, TypeOK
<1> QED
  BY <1>1, <1>2, <1>3, <1>4, <1>5, <1>6 DEF Next

(* Every reachable state of a transaction's records is well typed. *)
THEOREM RecordsTypeCorrect == Spec => []TypeOK
BY InitTypeOK, NextTypeOK, PTL DEF Spec

-----------------------------------------------------------------------------
LEMMA InitRecordsInv == Init => RecordsInv
BY InitTypeOK DEF Init, RecordsInv, None, NotCalled

LEMMA NextRecordsInv == RecordsInv /\ [Next]_vars => RecordsInv'
<1> SUFFICES ASSUME RecordsInv, [Next]_vars PROVE RecordsInv'
  OBVIOUS
<1>0. TypeOK'
  BY NextTypeOK DEF RecordsInv
<1>1. CASE Execute
  <2>1. batchResult = None /\ txResult = None /\ trace = NotCalled
    BY <1>1 DEF Execute, RecordsInv
  <2> QED
    BY <1>0, <1>1, <2>1 DEF Execute, RecordsInv
<1>6. CASE Mock
  <2>1. batchResult = None /\ txResult = None /\ trace = NotCalled
    BY <1>6 DEF Mock, RecordsInv
  <2> QED
    BY <1>0, <1>6, <2>1 DEF Mock, RecordsInv
<1>2. CASE MakeBatchResult
  <2>1. txResult = None /\ trace = NotCalled
    BY <1>2 DEF MakeBatchResult, RecordsInv
  <2> QED
    BY <1>0, <1>2, <2>1 DEF MakeBatchResult, RecordsInv
<1>3. CASE MakeTxResult
  <2>1. trace = NotCalled
    BY <1>3 DEF MakeTxResult, RecordsInv
  <2> QED
    BY <1>0, <1>3, <2>1 DEF MakeTxResult, RecordsInv
<1>4. CASE CallTrace
  BY <1>0, <1>4 DEF CallTrace, RecordsInv
<1>5. CASE UNCHANGED vars
  BY <1>0, <1>5 DEF vars, RecordsInv
<1> QED
  BY <1>1, <1>2, <1>3, <1>4, <1>5, <1>6 DEF Next

(* The history of the records holds in every reachable state. *)
THEOREM RecordsInvariant == Spec => []RecordsInv
BY InitRecordsInv, NextRecordsInv, PTL DEF Spec

(* call_trace() returns None exactly when no leaf trace was recorded, and
   otherwise panics or wraps the recorded traces under a bootloader root
   carrying the stored revert reason, for every gas width and build. *)
THEOREM TraceWrapsRecordedCallsHolds == Spec => []TraceWrapsRecordedCalls
<1>1. RecordsInv => TraceWrapsRecordedCalls
  BY DEF RecordsInv, TraceWrapsRecordedCalls, CallTraceOf, NewHighLevel
<1> QED
  BY <1>1, RecordsInvariant, PTL

=============================================================================
