---------------------------- MODULE ResultRecords ----------------------------
(***************************************************************************)
(* The result records of one transaction (execution_result.rs): the       *)
(* ExecutionResult tag and Refunds of VmExecutionResultAndLogs, the        *)
(* mid-level BatchTransactionExecutionResult, the high-level               *)
(* TransactionExecutionResult projected from it, and its call_trace(),     *)
(* which wraps the leaf traces in a synthetic root built by                *)
(* Call::new_high_level.                                                   *)
(*                                                                         *)
(* Gas amounts are u64: they are integers modulo 2^GasWidth.  An overflow  *)
(* of u64 arithmetic panics when the build has overflow checks (debug) and *)
(* wraps when it has not (release): OverflowChecks says which build runs.  *)
(* A transaction's gas limit is a U256, four u64 words; call_trace()       *)
(* narrows it with as_u64(), which panics in every build on a value above  *)
(* u64::MAX.                                                               *)
(* Outputs, revert and halt reasons and leaf calls are model values.       *)
(***************************************************************************)
EXTENDS Naturals, Sequences

CONSTANTS
  GasWidth,            \* bits of a u64 (64 in the code)
  OverflowChecks,      \* TRUE: u64 overflow panics; FALSE: it wraps
  GasLimits,           \* the U256 gas limits a transaction may declare
  Outputs,             \* return data of a successful execution
  RevertReasons,       \* VmRevertReason values
  HaltReasons,         \* Halt values
  LeafCalls,           \* the leaf Call nodes a tracer may record
  MaxLeafCalls,        \* bound on the number of leaf traces
  BOOTLOADER_ADDRESS,
  ZERO_ADDRESS,        \* Address::zero()
  NoReason             \* None for an Option<String>

ASSUME RecordsAssumption ==
  /\ GasWidth \in Nat \ {0}
  /\ 2^GasWidth \in Nat \ {0}     \* true of every width; stated for the provers
  /\ OverflowChecks \in BOOLEAN
  /\ GasLimits \subseteq 0..(2^(4 * GasWidth) - 1)
  /\ MaxLeafCalls \in Nat
  /\ BOOTLOADER_ADDRESS # ZERO_ADDRESS
  /\ NoReason \notin RevertReasons

VARIABLES
  vmResult,     \* VmExecutionResultAndLogs of the transaction, or None
  gasLimit,     \* transaction.gas_limit()
  batchResult,  \* BatchTransactionExecutionResult, or None
  txResult,     \* TransactionExecutionResult, or None
  trace         \* what call_trace() returned: NotCalled, None, a Call, or Panicked

vars == <<vmResult, gasLimit, batchResult, txResult, trace>>

None == [none |-> TRUE]
NotCalled == [notCalled |-> TRUE]
Panicked == [panicked |-> TRUE]

U64 == 0..(2^GasWidth - 1)

(* ExecutionResult: Success { output }, Revert { output }, Halt { reason }. *)
ExecutionResult ==
  [kind : {"Success"}, output : Outputs]
    \cup [kind : {"Revert"}, output : RevertReasons]
    \cup [kind : {"Halt"}, reason : HaltReasons]

LeafTraces == UNION {[1..n -> LeafCalls] : n \in 0..MaxLeafCalls}

(* Refunds { gas_refunded, operator_suggested_refund }, both u64. *)
RefundRecords == [gas_refunded : U64, operator_suggested_refund : U64]

-----------------------------------------------------------------------------
(* Mutant: call_trace() tests the wrong way round whether there are traces. *)
CallTraceOfInverted(t, limit) ==
  IF t.call_traces # <<>> THEN None
  ELSE [type |-> "Call(Normal)", from |-> ZERO_ADDRESS, to |-> BOOTLOADER_ADDRESS,
        parent_gas |-> limit, gas |-> limit, gas_used |-> limit,
        output |-> <<>>, error |-> NoReason, revert_reason |-> t.revert_reason,
        calls |-> t.call_traces]

-----------------------------------------------------------------------------
(* ExecutionResult::is_failed *)
IsFailed(r) == r.kind \in {"Revert", "Halt"}

(* BatchTransactionExecutionResult::was_halted *)
WasHalted(b) == b.tx_result.result.kind = "Halt"

(* TxExecutionStatus::from_has_failed *)
TxExecutionStatusFromHasFailed(hasFailed) ==
  IF hasFailed THEN "Failure" ELSE "Success"

(* a - b on u64 overflows when b > a: a panic when the build checks
   overflow; otherwise the difference wraps modulo 2^64. *)
U64SubPanics(a, b) == OverflowChecks /\ a < b

U64Sub(a, b) == (a - b) % 2^GasWidth

(* U256::as_u64 panics when the value does not fit in a u64. *)
AsU64Panics(x) == x > 2^GasWidth - 1

(* Call::new_high_level: the synthetic root of a transaction's trace. *)
NewHighLevel(gas, gasUsed, revertReason, calls) ==
  [type |-> "Call(Normal)", from |-> ZERO_ADDRESS, to |-> BOOTLOADER_ADDRESS,
   parent_gas |-> gas, gas |-> gas, gas_used |-> gasUsed,
   output |-> <<>>, error |-> NoReason, revert_reason |-> revertReason,
   calls |-> calls]

(* TransactionExecutionResult::call_trace, for a transaction whose gas limit
   is limit. *)
CallTraceOf(t, limit) ==
  IF t.call_traces = <<>> THEN None
  ELSE IF AsU64Panics(limit) \/ U64SubPanics(limit, t.refunded_gas) THEN Panicked
  ELSE NewHighLevel(limit, U64Sub(limit, t.refunded_gas), t.revert_reason,
                    t.call_traces)

-----------------------------------------------------------------------------
Init ==
  /\ vmResult = None
  /\ gasLimit \in GasLimits
  /\ batchResult = None
  /\ txResult = None
  /\ trace = NotCalled

(* The VM executes the transaction: an outcome, refunds and leaf traces. *)
Execute ==
  /\ vmResult = None
  /\ \E r \in ExecutionResult, rf \in RefundRecords, ct \in LeafTraces :
       vmResult' = [result |-> r, refunds |-> rf, call_traces |-> ct]
  /\ UNCHANGED <<gasLimit, batchResult, txResult, trace>>

(* VmExecutionResultAndLogs::mock: the given outcome with default logs,
   statistics and refunds; the VM recorded no traces. *)
Mock ==
  /\ vmResult = None
  /\ \E r \in ExecutionResult :
       vmResult' = [result |-> r,
                    refunds |-> [gas_refunded |-> 0, operator_suggested_refund |-> 0],
                    call_traces |-> <<>>]
  /\ UNCHANGED <<gasLimit, batchResult, txResult, trace>>

(* The batch executor wraps the VM result with the bytecode compression
   outcome. *)
MakeBatchResult ==
  /\ vmResult # None
  /\ batchResult = None
  /\ \E compression \in {"Ok", "CompressionError"} :
       batchResult' = [tx_result |-> vmResult,
                       compression_result |-> compression,
                       call_traces |-> vmResult.call_traces]
  /\ UNCHANGED <<vmResult, gasLimit, txResult, trace>>

(* The revert_reason stored in TransactionExecutionResult. *)
RevertReasonOf(r) == IF r.kind = "Revert" THEN r.output ELSE NoReason

(* The high-level record is projected from the mid-level one. *)
MakeTxResult ==
  /\ batchResult # None
  /\ txResult = None
  /\ LET r == batchResult.tx_result.result
     IN  txResult' =
           [execution_status |-> TxExecutionStatusFromHasFailed(IsFailed(r)),
            refunded_gas |-> batchResult.tx_result.refunds.gas_refunded,
            call_traces |-> batchResult.call_traces,
            revert_reason |-> RevertReasonOf(r)]
  /\ UNCHANGED <<vmResult, gasLimit, batchResult, trace>>

(* A reader asks for the transaction's trace. *)
CallTrace ==
  /\ txResult # None
  /\ trace = NotCalled
  /\ trace' = CallTraceOf(txResult, gasLimit)
  /\ UNCHANGED <<vmResult, gasLimit, batchResult, txResult>>

Next == Execute \/ Mock \/ MakeBatchResult \/ MakeTxResult \/ CallTrace

Spec == Init /\ [][Next]_vars

-----------------------------------------------------------------------------
(* The records each variable may hold. *)
VmResults ==
  [result : ExecutionResult, refunds : RefundRecords, call_traces : LeafTraces]

BatchResults ==
  [tx_result : VmResults, compression_result : {"Ok", "CompressionError"},
   call_traces : LeafTraces]

TxResults ==
  [execution_status : {"Success", "Failure"}, refunded_gas : U64,
   call_traces : LeafTraces, revert_reason : RevertReasons \cup {NoReason}]

(* The roots Call::new_high_level builds for call_trace(). *)
TraceRoots ==
  [type : {"Call(Normal)"}, from : {ZERO_ADDRESS}, to : {BOOTLOADER_ADDRESS},
   parent_gas : U64, gas : U64, gas_used : U64, output : {<<>>},
   error : {NoReason}, revert_reason : RevertReasons \cup {NoReason},
   calls : LeafTraces]

(* Every variable holds a value of its type. *)
TypeOK ==
  /\ vmResult \in VmResults \cup {None}
  /\ gasLimit \in GasLimits
  /\ batchResult \in BatchResults \cup {None}
  /\ txResult \in TxResults \cup {None}
  /\ trace \in TraceRoots \cup {NotCalled, None, Panicked}

(* call_trace() reports a trace exactly when leaf traces were recorded, and
   the trace it reports is rooted at the bootloader, carries the stored
   revert reason and has the recorded leaf traces, in order, as children. *)
TraceWrapsRecordedCalls ==
  trace # NotCalled =>
    IF batchResult.call_traces = <<>> THEN trace = None
    ELSE trace = Panicked
           \/ /\ trace.to = BOOTLOADER_ADDRESS
              /\ trace.calls = batchResult.call_traces
              /\ trace.revert_reason = RevertReasonOf(batchResult.tx_result.result)

(* The root's gas figures describe the transaction: gas is its gas limit and
   gas_used + refunded_gas = gas, and call_trace() never panics.  This is
   what the spec says of call_trace() (gas_used = gas_limit - refunded_gas)
   read over the integers, for every record the types admit. *)
TraceGasAccountsForRefund ==
  trace \notin {NotCalled, None} =>
    /\ trace # Panicked
    /\ trace.gas = gasLimit
    /\ trace.gas_used + txResult.refunded_gas = trace.gas

=============================================================================
