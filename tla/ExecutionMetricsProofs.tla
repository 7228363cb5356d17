----------------------- MODULE ExecutionMetricsProofs -----------------------
(***************************************************************************)
(* Proofs about the scan of get_execution_metrics, for every value of the  *)
(* constants that satisfies the assumptions of VmEvents and                *)
(* ExecutionMetrics.                                                       *)
(***************************************************************************)
EXTENDS ExecutionMetrics, FiniteSetTheorems, TLAPS

USE DecodeAssumption, ScanAssumption

(* The event logs Init chooses from are sequences of events. *)
LEMMA EventLogsAreSequences == EventLogs \subseteq Seq(VmEvent)
  BY DEF EventLogs

(* The initial states are well typed. *)
LEMMA InitTypeOK == Init => TypeOK
  <1> SUFFICES ASSUME Init PROVE TypeOK
    OBVIOUS
  <1>1. events \in Seq(VmEvent)
    BY EventLogsAreSequences DEF Init
  <1>2. logs \in [user : Nat, system : Nat]
    BY DEF Init
  <1>3. QED
    BY <1>1, <1>2 DEF Init, TypeOK, Phases

(* Every step of Next keeps every variable within its type. *)
LEMMA NextTypeOK == TypeOK /\ [Next]_vars => TypeOK'
  <1> SUFFICES ASSUME TypeOK, [Next]_vars PROVE TypeOK'
    OBVIOUS
  <1>1. CASE LongMessageStep
    <2> DEFINE e == events[idx + 1]
    <2>1. e \in VmEvent /\ idx < Len(events)
      BY <1>1 DEF LongMessageStep, TypeOK
    <2>2. LongMessageLen(e) # Malformed => LongMessageBytes(LongMessageLen(e)) \in Nat
      BY <2>1 DEF LongMessageLen, LongMessageBytes, VmEvent
    <2>3. QED
      BY <1>1, <2>1, <2>2 DEF LongMessageStep, TypeOK, Advance, Panic, Phases
  <1>2. CASE EndLongMessages
    BY <1>2 DEF EndLongMessages, TypeOK, Phases
  <1>3. CASE PublishedBytecodeStep
    <2> DEFINE e == events[idx + 1]
               len == BytecodeLenInBytes[e.indexed_topics[2]]
    <2>1. e \in VmEvent /\ idx < Len(events)
      BY <1>3 DEF PublishedBytecodeStep, TypeOK
    <2>2. IsPublishedBytecodeEvent(e) /\ len # Malformed
            => PublishedBytecodeBytes(len) \in Nat
      BY <2>1 DEF IsPublishedBytecodeEvent, PublishedBytecodeBytes, VmEvent
    <2>3. QED
      BY <1>3, <2>1, <2>2 DEF PublishedBytecodeStep, TypeOK, Advance, Panic, Phases
  <1>4. CASE EndPublishedBytecodes
    BY <1>4 DEF EndPublishedBytecodes, TypeOK, Phases
  <1>5. CASE KnownBytecodeStep
    BY <1>5 DEF KnownBytecodeStep, TypeOK, Advance, Phases
  <1>6. CASE BuildMetrics
    BY <1>6 DEF BuildMetrics, TotalL2ToL1LogsCount, TypeOK, Phases, MetricsRecord
  <1>7. CASE UNCHANGED vars
    BY <1>7 DEF vars, TypeOK
  <1>8. QED
    BY <1>1, <1>2, <1>3, <1>4, <1>5, <1>6, <1>7 DEF Next

(* get_execution_metrics never leaves the types of its state. *)
THEOREM TypeCorrect == Spec => []TypeOK
  BY InitTypeOK, NextTypeOK, PTL DEF Spec

-----------------------------------------------------------------------------
(***************************************************************************)
(* The inductive invariant of the scan, on which the refinement of        *)
(* MetricsSpec rests.  That "done" implies no malformed payload is not     *)
(* inductive by itself: it rests on each pass having checked, event by     *)
(* event, the prefix it has consumed, and on a finished pass having        *)
(* checked the whole log.                                                  *)
(***************************************************************************)
LongDecodedUpTo(n) ==
  \A k \in 1..n :
     IsL1MessageEvent(events[k]) => AbiDecode[events[k].value] # Malformed

PublishedParsedUpTo(n) ==
  \A k \in 1..n :
     IsPublishedBytecodeEvent(events[k]) =>
       BytecodeLenInBytes[events[k].indexed_topics[2]] # Malformed

(* The MarkedAsKnown events among the first n of the log. *)
MarkedAsKnownUpTo(n) == {k \in 1..n : IsMarkedAsKnownEvent(events[k])}

ScanInv ==
  /\ TypeOK
  /\ phase = "long" => LongDecodedUpTo(idx) /\ contract_deployment_count = 0
  /\ phase \in {"published", "known", "done"} => LongDecodedUpTo(Len(events))
  /\ phase = "published" =>
       PublishedParsedUpTo(idx) /\ contract_deployment_count = 0
  /\ phase \in {"known", "done"} => PublishedParsedUpTo(Len(events))
  /\ phase = "known" =>
       contract_deployment_count = Cardinality(MarkedAsKnownUpTo(idx))
  /\ phase = "done" =>
       metrics.contract_deployment_count =
         Cardinality(MarkedAsKnownUpTo(Len(events)))
  /\ phase = "panic" =>
       LongMessageDecodeFails(events) \/ PublishedBytecodeParseFails(events)

(* Counting one more event of the log adds one to the number of
   MarkedAsKnown events exactly when that event is one. *)
LEMMA KnownCountStep ==
  ASSUME events \in Seq(VmEvent), NEW n \in 0..(Len(events) - 1)
  PROVE  /\ IsFiniteSet(MarkedAsKnownUpTo(n))
         /\ Cardinality(MarkedAsKnownUpTo(n + 1)) =
              IF IsMarkedAsKnownEvent(events[n + 1])
              THEN Cardinality(MarkedAsKnownUpTo(n)) + 1
              ELSE Cardinality(MarkedAsKnownUpTo(n))
<1>1. IsFiniteSet(MarkedAsKnownUpTo(n))
  <2>1. IsFiniteSet(1..n)
    BY FS_Interval
  <2>2. MarkedAsKnownUpTo(n) \subseteq 1..n
    BY DEF MarkedAsKnownUpTo
  <2>3. QED
    BY <2>1, <2>2, FS_Subset
<1>2. CASE IsMarkedAsKnownEvent(events[n + 1])
  <2>1. MarkedAsKnownUpTo(n + 1) = MarkedAsKnownUpTo(n) \cup {n + 1}
    BY <1>2 DEF MarkedAsKnownUpTo
  <2>2. n + 1 \notin MarkedAsKnownUpTo(n)
    BY DEF MarkedAsKnownUpTo
  <2>3. QED
    BY <1>1, <1>2, <2>1, <2>2, FS_AddElement
<1>3. CASE ~IsMarkedAsKnownEvent(events[n + 1])
  <2>1. MarkedAsKnownUpTo(n + 1) = MarkedAsKnownUpTo(n)
    BY <1>3 DEF MarkedAsKnownUpTo
  <2>2. QED
    BY <1>1, <1>3, <2>1
<1>4. QED
  BY <1>1, <1>2, <1>3

(* No event of an empty prefix is counted. *)
LEMMA KnownCountEmpty == Cardinality(MarkedAsKnownUpTo(0)) = 0
<1>1. MarkedAsKnownUpTo(0) = {}
  BY DEF MarkedAsKnownUpTo
<1>2. QED
  BY <1>1, FS_EmptySet

(* The initial states satisfy the inductive invariant. *)
LEMMA InitScanInv == Init => ScanInv
<1> SUFFICES ASSUME Init PROVE ScanInv
  OBVIOUS
<1>1. TypeOK
  BY InitTypeOK
<1>2. LongDecodedUpTo(idx)
  BY DEF Init, LongDecodedUpTo
<1>3. QED
  BY <1>1, <1>2 DEF Init, ScanInv

(* Every step of Next preserves the inductive invariant. *)
LEMMA NextScanInv == ScanInv /\ [Next]_vars => ScanInv'
<1> SUFFICES ASSUME ScanInv, [Next]_vars PROVE ScanInv'
  OBVIOUS
<1> USE DEF ScanInv
<1>0. TypeOK'
  BY NextTypeOK
<1>1. CASE LongMessageStep
  <2> DEFINE e == events[idx + 1]
  <2>1. idx < Len(events) /\ phase = "long" /\ events' = events
    BY <1>1 DEF LongMessageStep
  <2>2. CASE ~IsL1MessageEvent(e)
    <3>1. phase' = "long" /\ idx' = idx + 1
          /\ contract_deployment_count' = contract_deployment_count
      BY <1>1, <2>2 DEF LongMessageStep, Advance
    <3>2. LongDecodedUpTo(idx + 1)
      BY <2>1, <2>2 DEF LongDecodedUpTo, TypeOK
    <3>3. QED
      BY <1>0, <2>1, <3>1, <3>2 DEF LongDecodedUpTo
  <2>3. CASE IsL1MessageEvent(e) /\ LongMessageLen(e) # Malformed
    <3>1. phase' = "long" /\ idx' = idx + 1
          /\ contract_deployment_count' = contract_deployment_count
      BY <1>1, <2>3 DEF LongMessageStep, Advance
    <3>2. LongDecodedUpTo(idx + 1)
      BY <2>1, <2>3 DEF LongDecodedUpTo, LongMessageLen, TypeOK
    <3>3. QED
      BY <1>0, <2>1, <3>1, <3>2 DEF LongDecodedUpTo
  <2>4. CASE IsL1MessageEvent(e) /\ LongMessageLen(e) = Malformed
    <3>1. phase' = "panic"
      BY <1>1, <2>4 DEF LongMessageStep, Panic
    <3>2. LongMessageDecodeFails(events)
      BY <2>1, <2>4 DEF LongMessageDecodeFails, LongMessageLen, TypeOK
    <3>3. QED
      BY <1>0, <2>1, <3>1, <3>2
  <2>5. QED
    BY <2>2, <2>3, <2>4
<1>2. CASE EndLongMessages
  <2>1. phase = "long" /\ idx = Len(events) /\ phase' = "published" /\ idx' = 0
        /\ UNCHANGED <<events, contract_deployment_count>>
    BY <1>2 DEF EndLongMessages
  <2>2. QED
    BY <1>0, <2>1 DEF LongDecodedUpTo, PublishedParsedUpTo
<1>3. CASE PublishedBytecodeStep
  <2> DEFINE e == events[idx + 1]
             len == BytecodeLenInBytes[e.indexed_topics[2]]
  <2>1. idx < Len(events) /\ phase = "published" /\ events' = events
        /\ contract_deployment_count' = contract_deployment_count
    BY <1>3 DEF PublishedBytecodeStep
  <2>2. CASE ~IsPublishedBytecodeEvent(e) \/ len # Malformed
    <3>1. phase' = "published" /\ idx' = idx + 1
      BY <1>3, <2>2 DEF PublishedBytecodeStep, Advance
    <3>2. PublishedParsedUpTo(idx + 1)
      BY <2>1, <2>2 DEF PublishedParsedUpTo, TypeOK
    <3>3. QED
      BY <1>0, <2>1, <3>1, <3>2 DEF LongDecodedUpTo, PublishedParsedUpTo
  <2>3. CASE IsPublishedBytecodeEvent(e) /\ len = Malformed
    <3>1. phase' = "panic"
      BY <1>3, <2>3 DEF PublishedBytecodeStep, Panic
    <3>2. PublishedBytecodeParseFails(events)
      BY <2>1, <2>3 DEF PublishedBytecodeParseFails, TypeOK
    <3>3. QED
      BY <1>0, <2>1, <3>1, <3>2
  <2>4. QED
    BY <2>2, <2>3
<1>4. CASE EndPublishedBytecodes
  <2>1. phase = "published" /\ idx = Len(events) /\ phase' = "known" /\ idx' = 0
        /\ UNCHANGED <<events, contract_deployment_count>>
    BY <1>4 DEF EndPublishedBytecodes
  <2>2. Cardinality(MarkedAsKnownUpTo(0)') = 0
    BY <2>1, KnownCountEmpty DEF MarkedAsKnownUpTo
  <2>3. QED
    BY <1>0, <2>1, <2>2 DEF LongDecodedUpTo, PublishedParsedUpTo
<1>5. CASE KnownBytecodeStep
  <2>1. phase = "known" /\ idx < Len(events) /\ phase' = "known"
        /\ idx' = idx + 1 /\ events' = events
    BY <1>5 DEF KnownBytecodeStep, Advance
  <2>2. contract_deployment_count' = Cardinality(MarkedAsKnownUpTo(idx + 1))
    <3>1. idx \in 0..(Len(events) - 1) /\ events \in Seq(VmEvent)
      BY <2>1 DEF TypeOK
    <3>2. QED
      BY <1>5, <2>1, <3>1, KnownCountStep DEF KnownBytecodeStep
  <2>3. QED
    BY <1>0, <2>1, <2>2 DEF LongDecodedUpTo, PublishedParsedUpTo, MarkedAsKnownUpTo
<1>6. CASE BuildMetrics
  <2>1. phase = "known" /\ idx = Len(events) /\ phase' = "done"
        /\ metrics'.contract_deployment_count = contract_deployment_count
        /\ UNCHANGED <<events, idx>>
    BY <1>6 DEF BuildMetrics
  <2>2. QED
    BY <1>0, <2>1 DEF LongDecodedUpTo, PublishedParsedUpTo, MarkedAsKnownUpTo
<1>7. CASE UNCHANGED vars
  BY <1>0, <1>7 DEF vars, LongDecodedUpTo, PublishedParsedUpTo, MarkedAsKnownUpTo,
                    LongMessageDecodeFails, PublishedBytecodeParseFails
<1>8. QED
  BY <1>1, <1>2, <1>3, <1>4, <1>5, <1>6, <1>7 DEF Next

(* The scan's state always satisfies the inductive invariant. *)
THEOREM ScanInvariant == Spec => []ScanInv
  BY InitScanInv, NextScanInv, PTL DEF Spec

-----------------------------------------------------------------------------
(* The bytes get_execution_metrics bills for one long message, computed as
   ((len + 31) / 32) * 32 + 64 at line 191, are the size of the ABI encoding
   MetricsSpec states: two words plus the least multiple of 32 that holds
   the message, for every length. *)
THEOREM LongMessageBytesIsAbiSize ==
  \A len \in Nat :
    LongMessageBytes(len) = 32 + 32 + (CHOOSE p \in len..(len + 31) : p % 32 = 0)
<1> SUFFICES ASSUME NEW len \in Nat
             PROVE  LongMessageBytes(len) =
                      32 + 32 + (CHOOSE p \in len..(len + 31) : p % 32 = 0)
  OBVIOUS
<1> DEFINE m == ((len + 31) \div 32) * 32
<1>1. m \in len..(len + 31) /\ m % 32 = 0
  BY SMT
<1>2. \A p \in len..(len + 31) : p % 32 = 0 => p = m
  BY SMT
<1>3. (CHOOSE p \in len..(len + 31) : p % 32 = 0) = m
  BY <1>1, <1>2
<1>4. LongMessageBytes(len) = 32 + 32 + m
  BY DEF LongMessageBytes
<1> QED
  BY <1>3, <1>4

=============================================================================
