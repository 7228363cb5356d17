# Formal model of the VM execution-result layer

This directory holds TLA+ modules, TLC configurations and TLAPS proofs for
`src/core/lib/vm_interface/src/types/outputs/execution_result.rs`. That file
defines the output of executing a transaction and derives metrics from the VM's
event log. These metrics feed fee accounting and the relay of L2→L1 messages.
It models code. It is not a rewrite of the code.

## 1. Inventory

### Components

| Component | Code | State it keeps | Operations |
|---|---|---|---|
| Event model and signature registry | `VmEvent`, lines 20–109 | none (pure); an event is `{location, address, indexed_topics, value}` | `extract_long_l2_to_l1_messages`, `extract_published_bytecodes`, `extract_bytecodes_marked_as_known`, `contains_contract_deployment` |
| Execution outcome and logs | `ExecutionResult`, `VmExecutionLogs`, `Refunds`, `VmExecutionResultAndLogs`, lines 111–182 | one write-once record per execution | `is_failed`, `total_l2_to_l1_logs_count`, `mock*` (test helpers) |
| Metrics derivation | `get_execution_metrics`, lines 184–224 | the local sums of three passes over the event log | one call: three passes, two of which can panic, then a record is built |
| Call trace | `CallType`, `Call`, lines 243–346 | a recursive tree, immutable; stored and read back by serde | `PartialEq` without gas, u8 (de)serialisation of `FarCallOpcode`, `new_high_level` |
| Result records | `BatchTransactionExecutionResult`, `TransactionExecutionResult`, lines 348–396 | one record per transaction | `was_halted`, `from_has_failed`, `call_trace` |
| CLI messages | `zk_toolbox/.../messages.rs` | none | string constants and `format!` helpers; not modelled |

### How the parts interact

Data flows one way. The VM executor (outside this code) produces a
`VmExecutionResultAndLogs`. `get_execution_metrics` runs the extraction
functions over its events. The batch executor wraps the result, with its
compression outcome and leaf traces, into a `BatchTransactionExecutionResult`.
The state keeper then projects that into a `TransactionExecutionResult`, and
readers call its `call_trace()`. Apart from that the parts only call one
another. Nothing is shared or mutable, and nothing runs concurrently inside
this code.

### What is hard

There are no threads, locks or messages here. The hard behaviour is sequential:

- Control inside one call.
  - Three passes run in a fixed order, and two `expect`s can abort the whole
    computation part-way (`:63`, `:198`).
  - The filters differ in one conjunct (`topics[2] != 0`, `:80`), so pass 2 and
    pass 3 disagree on purpose.
- Arithmetic at edges.
  - Word rounding of message sizes (`:191`).
  - Unchecked u64 subtraction in `call_trace` (`:387`). It panics in a debug
    build and wraps in a release build.
  - The U256 gas limit narrowed by `as_u64()` (`:386`), which panics in every
    build above `u64::MAX`.
- Equality that is not structural: `Call::eq` leaves out the gas fields (`:307`).
- A wire format split across two crates: `far_call_type_to_u8` writes the
  discriminant of another crate's enum (`:275`), while `far_call_type_from_u8`
  hard-codes 0, 1 and 2 (`:263–267`).

### Properties that make each part correct

- **Extraction and metrics.**
  - Returns exactly the specified sums and counts.
  - Panics exactly when a trusted payload is malformed. It never drops one and
    never reads one as a default.
  - `contract_deployment_count` counts MarkedAsKnown events, as the spec
    requires.
  All three are one property, the refinement of `MetricsSpec`.
- **Result records.**
  - `call_trace` is `None` exactly when there are no leaf traces. Otherwise it
    wraps them in order under a bootloader root that carries the stored revert
    reason.
  - `gas_used + refunded_gas = gas_limit`.
- **Call trace.**
  - `Call::eq` is an equivalence that ignores exactly the three gas fields.
  - CallType survives a serde round trip, and bytes above 2 are rejected with an
    error.

`PROJECT.json` `"hazards"` lists each hazard at its line.

## 2. Modules

| Module | Models | Notes |
|---|---|---|
| `VmEvents` | the `VmEvent` record, signatures, filters and extraction functions (lines 20–109) | constants: addresses, topics and payloads as model values. `.iter().filter(..)` is `FilterPrefix(s, Keep)`, the filtered prefix after each event consumed, with `Keep` the set of events the closure accepts, written as a recursive function so that proofs can unfold it (`SelectSeq` says the same, but the provers know it by name only). `AbiDecode` stands for `ethabi::decode([Bytes])` and `BytecodeLenInBytes` for `BytecodeHash::try_from(..).len_in_bytes()`. Each is a constant function to a length or `Malformed`. |
| `ExecutionMetrics` | `get_execution_metrics` (lines 184–224) | the core state machine. Variables: `events`, `logs`, `phase` ∈ {long, published, known, done, panic}, `idx` (events the current pass has consumed), the three running sums, and `metrics`. |
| `MetricsSpec` | the promise of `get_execution_metrics` in one step | the events each metric reads are given by the spec's admission rule (`Admits`: address, three topics, topic 0 the signature; `L1Messages`, `KnownMarkings`, `Publications`), not by the code's closures, so a changed filter in the code is a failed refinement. The byte sums are stated as sizes of the ABI encoding, summed by `SumOf` (the prefix sums `SumPrefix`). |
| `MCExecutionMetrics` | the TLC instance | `ExecutionMetrics` holds the refinement mapping `Abstract` to `MetricsSpec`: the outcome is read off `phase`, the result is `metrics`. |
| `ExecutionMetricsProofs` | TLAPS proofs about `ExecutionMetrics` | |
| `MetricsRefinementProofs` | the TLAPS proof that `ExecutionMetrics` refines `MetricsSpec` | with lemmas on `FilterPrefix` and `SumPrefix`, proved by induction. |
| `ResultRecords` | `ExecutionResult`, `Refunds`, `BatchTransactionExecutionResult`, `TransactionExecutionResult::call_trace`, `Call::new_high_level` | the lifecycle of one transaction's records. |
| `MCResultRecords` | the TLC instance | |
| `ResultRecordsProofs` | TLAPS proofs about `ResultRecords` | |
| `CallTypeSerde` | `CallType` and its u8 serde (lines 243–276) | no recursion, so it can be proved about. |
| `CallTypeSerdeProofs` | TLAPS proofs about `CallTypeSerde` | |
| `CallTrace` | `Call` and its derived serde over the `CallTypeSerde` codec, `impl PartialEq for Call` (lines 279–319) | TLC only: the tree operators are RECURSIVE. Variables: `call` (the produced trace), `wire` (the stored form), `decoded` (what deserialising it gave), `same` (the result of `==`). |
| `MCCallTrace` | the TLC instance | |

### How `ExecutionMetrics` corresponds to the code

Each pass of the code is an iterator over `self.logs.events`. The model takes
one step per event:

- **`LongMessageStep`.** Its three disjuncts are:
  - skip an event that fails `IsL1MessageEvent` (the closure at `:55–60`);
  - add `LongMessageBytes` of the decoded length (`:191`);
  - the `expect` at `:63`, which panics.
- **`PublishedBytecodeStep`.** Built the same way from `:74–81` and `:196–201`,
  with the `expect` at `:198`.
- **`KnownBytecodeStep`.** The `.count()` of `:205–206`.
- **`EndLongMessages` and `EndPublishedBytecodes`.** End a pass and start the
  next iterator.
- **`BuildMetrics`.** The struct literal of `:208–223`, with
  `TotalL2ToL1LogsCount` for `total_l2_to_l1_logs_count` (`:131–135`). The statistics fields
  are copied unchanged and left out.

The code collects a pass and then sums it; the model sums as it goes. The two
are the same, because a panic anywhere in the pass discards the partial sum.

Every filter tests the topic count before it indexes, as the Rust `&&` chain
does, so no model step reads a topic that is missing.

### How `ResultRecords` corresponds to the code

The actions are:

- `Execute`: the VM's output (input, chosen from small sets).
- `MakeBatchResult`: the struct at `:348–357`.
- `MakeTxResult`: the projection. Its code is outside `src/`, so it is
  `spec_modelled` from spec §3 and §4.5. `refunded_gas` is taken from
  `refunds.gas_refunded`.
- `CallTrace`: `:380–396`.

`Mock` is `VmExecutionResultAndLogs::mock` (`:167–182`): the given outcome,
default refunds and no traces.

u64 arithmetic is modulo `2^GasWidth`. `OverflowChecks` selects a debug build
(overflow panics) or a release build (overflow wraps). The gas limit is a U256
(`GasLimits` ⊆ `0..2^(4·GasWidth)-1`); `call_trace()` narrows it with
`as_u64()`, and `AsU64Panics` is its panic above `u64::MAX`, in every build.

### How `CallTrace` corresponds to the code

The codec of one node is in `CallTypeSerde`; `CallTrace` extends it. A
`CallType` is a record: `[kind |-> "Call", opcode |-> o]`, `[kind |-> "Create"]`
or `[kind |-> "NearCall"]`. On the wire, `Call` carries a number instead of the
opcode: whatever the deserialiser meets, so a stored trace may hold any integer.

- `FarCallOpcodeAsU8` is the `as u8` cast of `:275`. The discriminants 0, 1, 2
  are those of `FarCallOpcode` in its own crate.
- `FarCallTypeFromU8` is `:258–268`. `u8::deserialize` rejects a number outside
  0..255 (the `?` of `:262`); the match rejects 3..255 (`:267`).
- `SerializeCall` and `DeserializeCall` are the derived serde of `Call`: every
  field as it is, the type through the two functions above, the subcalls in
  order. An error anywhere in the tree is the error of the whole.
- `CallEq` is `:307–319`, field by field in the code's order; `self.calls ==
  other.calls` is Vec equality, so it is `CallEq` element by element.

The actions are:

- `Store`: the produced trace is serialised;
- `StoreForeign`: the stored trace was written by another writer (an older
  version, another tool), chosen from every tree over `WireNodes`;
- `Load`: it is deserialised;
- `Compare`: the produced trace is compared with the one read back.

## 3. Runs

| Run | Checks | Shows |
|---|---|---|
| `metrics` (`MCExecutionMetrics.cfg`) | `MetricsRefinesSpec` | the scan implements `MetricsSpec`: exact sums and count over the events the spec's admission rule selects, or a panic exactly on a malformed trusted payload, including a pass-2 panic after pass 1 succeeded |
| `records` (`MCResultRecords.cfg`) | `TraceWrapsRecordedCalls` | `call_trace()` is `None` exactly without leaf traces; otherwise it panics (a gas limit above `u64::MAX`, or an underflow in a debug build) or its synthetic root wraps the recorded leaf calls in order with the stored revert reason |
| `call_trace` (`MCCallTrace.cfg`) | `SerdeRoundTrip`, `DecodeRejectsExactlyBadOpcodes`, `EqIgnoresExactlyGas` | a stored trace reads back as exactly what was stored, gas included; deserialising fails (with an error, never a panic) exactly when some Call carries a number that is no opcode; `==` ignores exactly the three gas fields at every depth and in subcall order |
| `trace_gas_underflow` (`MCResultRecords_gas.cfg`, expected violation) | `TraceGasAccountsForRefund` | in a release build, a refund larger than the gas limit makes `call_trace()` report a wrapped `gas_used` (the finding in `PROJECT.json`) |

### Bounds, and why they are enough

- **Metrics.** An event log has at most 2 events, taken from 36 event shapes.
  - Each filter conjunct occurs on both sides: the right or a wrong address; 3
    topics, or 1, or 4; the right or a wrong signature; a zero or a non-zero
    third topic; a hash that parses or one that does not.
  - Message lengths are 1, 32 and 33, which straddle the word boundary.
  - With two events, each pass can succeed after the other has panicked or
    succeeded, and a bad hash can be hidden by a zero flag next to a good event.
  - The run has 49,456 states.
- **Records.** u64 is shrunk to 2 bits, so gas limits of 2 and 3 can meet
  refunds of 0 to 3 (below, equal to and above the limit), and a gas limit of
  4 lies above `u64::MAX`. There are up to two leaf calls. The run has 7,059
  states. The `trace_gas_underflow` run keeps the limits to 2 and 3, so that
  the violation it finds is the underflow.
- **Call traces.** A trace has depth at most 2, and its root has at most two
  subcalls, so order among siblings and a difference below the root both occur.
  - The nodes are one per call type (all five), one that differs from the base
    in all three gas fields, and one that differs in its revert reason.
  - A foreign writer may store any tree over the serialised Normal nodes, over
    nodes that differ from the base in one other compared field each (`from`,
    `to`, `value`, `input`, `output`, `error`), and over Calls numbered 1, 3
    and 256: a valid byte that is not the one written, a byte the match
    rejects, and a number `u8::deserialize` rejects. So every conjunct of
    `Call::eq` is the only one that tells some stored trace from the produced
    one, at the root or in a subcall.
  - The run has 1,947,666 states.

### Fairness and deadlock

No run checks a liveness property, so no specification assumes fairness: the
passes of `get_execution_metrics` only move forward over a finite log, and that
they end says nothing about the code. The computation stops after it returns or
panics. That is why deadlock checking is off for these runs: the state with
nothing left to do is the function's return. The same holds for `ResultRecords`, whose last step is the
`call_trace()` call, and for `CallTrace`, whose last step is the comparison or a
failed read.

## 4. What is proved (TLAPS)

### `ExecutionMetricsProofs`

The proofs hold for every value of the constants that satisfies
`AddressAssumption`, `TopicAssumption`, `DecodeAssumption` and `ScanAssumption`:
any addresses, any topic and payload sets, any decoding functions, any overhead
and any event universe.

- **`TypeCorrect`**: `Spec => []TypeOK`.
- **`ScanInvariant`**: `Spec => []ScanInv`, the base of the refinement proof.
  "done ⇒ no malformed payload" is not inductive by itself: it needs the
  passes' history.
  `ScanInv` says:
  - each pass has checked the prefix `1..idx` it has consumed
    (`LongDecodedUpTo`, `PublishedParsedUpTo`);
  - a finished pass has checked the whole log;
  - during pass 3 the count equals `Cardinality(MarkedAsKnownUpTo(idx))`;
  - a panic always has a witness event.

  The proof has one step per action, and under each one a step per case of the
  filter. The counting step rests on the lemma `KnownCountStep`, which follows
  from `FS_Interval`, `FS_Subset` and `FS_AddElement`.
- **`LongMessageBytesIsAbiSize`**: for every `len ∈ Nat`, the arithmetic of
  `:191`, `((len + 31) / 32) * 32 + 64`, equals the size `MetricsSpec` states:
  64 plus the unique multiple of 32 in `len..len+31`. The proof exhibits the
  multiple and shows that it is the only one, so the `CHOOSE` picks it.

TLC checked `ScanInv` as an invariant of the `metrics` instance before it was
proved.

### `ResultRecordsProofs`

These hold under `RecordsAssumption`, for every gas width, either build, and any
sets of outcomes, reasons, gas limits and leaf calls.

- **`RecordsTypeCorrect`**: `Spec => []TypeOK`.
- **`RecordsInvariant`**: `Spec => []RecordsInv`. The run's invariant is
  not inductive: they speak of `txResult` and `trace`, and what makes them true
  is how those were computed. `RecordsInv` records that history: the batch
  result wraps the VM result, the transaction result is the projection of the
  batch result, and `trace` is `CallTraceOf(txResult, gasLimit)`.
- **`TraceWrapsRecordedCallsHolds`**: the `records` run's invariant, derived
  from `RecordsInv`, for every U256 gas limit.

`RecordsAssumption` states `2^GasWidth ∈ Nat \ {0}`. That is true of every
width, but the provers have no facts about `^`. TLC checked `RecordsInv` on the
`records` instance, in both builds, before it was proved.

### `CallTypeSerdeProofs`

These hold for every CallType and every integer a stored Call may carry.

- **`CallTypeRoundTrip`**: every CallType deserialises back to itself after
  serialisation. The proof rests on `OpcodeRoundTrip`: the byte
  `far_call_type_to_u8` writes for an opcode is the byte `far_call_type_from_u8`
  maps back to it.
- **`CallTypeDecodeExact`**: deserialising a stored CallType gives an error
  exactly for a Call whose number is not 0, 1 or 2, and otherwise gives a
  CallType that serialises back to the stored form. The proof has one case per
  shape of the wire value.

These are the node-level halves of `SerdeRoundTrip` and
`DecodeRejectsExactlyBadOpcodes`. The tree-level statements are about RECURSIVE
operators, and so stay with TLC.

### `MetricsRefinementProofs`

- **`MetricsRefinesSpecHolds`**: `Spec => MetricsRefinesSpec`. The three-pass
  scan implements the one-step `MetricsSpec`, for every event log, decoding
  function, overhead and log count. It returns exactly `ResultOf`: the sums of
  the ABI-encoded message sizes and of the bytecode lengths plus overhead, and
  the number of MarkedAsKnown events, over the events `MetricsSpec`'s own
  admission rule selects. It panics exactly when a trusted payload is
  malformed. The proof has three parts:
  - `InitRefines`: an initial state maps to an initial state.
  - `NextRefines`: a step into `panic` is `Abort`, `BuildMetrics` is `Return`,
    and every other step leaves the mapped state alone.
  - `RefinementInvariant`: `Spec => []RefInv`. `RefInv` extends `ScanInv`.
    Each pass's running value equals the abstract cost summed over the filtered
    prefix `FilterPrefix(events, ..)[idx]`, and an ended pass's value is that
    of the whole log. A returned record is `ResultOf` of the log, and there is
    no record before then. TLC checked `RefInv` on the `metrics` instance before
    it was proved.
- **The lemmas it rests on**, about the model's two recursive functions:
  - `FilterPrefixDef` and `SumPrefixDef`: each function is what its recursive
    definition states. They follow from `FiniteNatInductiveDef`.
  - `FilterPrefixType`: every filtered prefix is a sequence of the log's
    element type.
  - `SumEmpty` and `SumAppend`: the empty sum is 0, and appending `x` adds `x`.
  - `L1SelStep`, `PubSelStep` and `KnownSelStep`: consuming one more event
    grows each pass's abstract value by that event's cost exactly when the
    filter keeps it.
  - `KeepSetsAgree`: the code's three closures keep exactly the events of
    `L1Messages`, `Publications` and `KnownMarkings`.
  - `FailsIsDecodeOrParseFailure`: `MetricsSpec`'s failure condition is the
    disjunction of the two `expect` failures.
  - `ResultOfWholeLog`: `ResultOf` is the record of the three whole-log values.
  - `LongMessageBytesAbi`: the word rounding of `:191` is the ABI-encoded size.
  The inductions use `NatSetInduction`: a set of naturals holding 0 and closed
  under successor holds every natural. It is derived from `WFMin` and
  `NatLessThanWellFounded`. It is stated for a set, because the provers cannot
  instantiate the operator parameter of `NatInduction`. For the same reason the
  filter takes the set `Keep` of events its closure accepts, not a predicate
  (`L1Keep == {e \in VmEvent : IsL1MessageEvent(e)}`). A lemma about the filter
  states its conclusion as an operator of `s` and `Keep`
  (`FilterPrefixUnfolds(s, Keep)`), and is cited in that form.

### Only model-checked

The following are checked by TLC only:

- **All three `CallTrace` invariants, for whole trees.** The operators recurse
  over trees, and are written as RECURSIVE operators. A module that reaches one
  cannot be proved about. To prove them, the operators would have to be
  recursive functions over a set of trees closed under subcalls, and the proof
  an induction on depth. What holds of one node is proved in
  `CallTypeSerdeProofs`. `EqIgnoresExactlyGas` has no node-level part worth
  stating without the recursion.
- **`TraceGasAccountsForRefund`.** It is false (the finding).

## 5. Not modelled, and why

- **The signatures' byte values.** They are keccak hashes of the event
  declarations, and the unit tests check them. The model needs only that they
  are distinct and non-zero.
- **ABI decoding and bytecode-hash parsing internals.** They are abstracted to
  their outcome: a length, or Malformed.
- **`location`, statistics, storage logs, `dynamic_factory_deps`.** This code
  never reads them; they are copied or counted.
- **`Default` for `CallType` and `Call`.** Nothing in this code uses it.
- **`messages.rs`.** String constants and `format!` helpers of a command-line
  tool. The only control flow is the choice between two wordings on a flag.
  There is no state and no property a model could check beyond the wording.

## 6. Plan

1. Done: `VmEvents` and `ExecutionMetrics` (the core), `MetricsSpec` with its
   refinement, `ResultRecords` with `mock`, and `CallTrace`.
2. Done: proofs of the type invariants of `ExecutionMetrics` and
   `ResultRecords`, of every invariant and action property of the `metrics`
   and `records` runs, of the refinement `MetricsRefinesSpec`, of the word
   rounding, and of the CallType codec node by node.
3. Left:
   - compose the pipeline, so that `MakeTxResult` also takes
     `execution_info` from `ExecutionMetrics`;
   - the `CallTrace` tree operators as recursive functions, and the three
     tree invariants proved by induction on depth.
